---- MODULE Spec2Model ----
(***************************************************************************)
(* Nirabhi content moderator: the ContentAnalyzer of                       *)
(* backend/models/content_analyzer.py as a state machine.                  *)
(*                                                                         *)
(* Scores are fixed-point numbers in hundredths: 0.85 is 85, a sentiment   *)
(* compound of -0.75 is -75.  Every constant of the code is a multiple of  *)
(* 0.05, and the inputs are drawn from multiples of 0.05, so every sum,    *)
(* max, min and the product |compound| * 0.6 is exact.                     *)
(***************************************************************************)
EXTENDS Integers, Sequences, FiniteSets, TLC

VARIABLES
    toxicity_classifier,  \* self.toxicity_classifier: "None" or "pipeline"
    sentiment_analyzer,   \* self.sentiment_analyzer: "None" or "vader"
    is_initialized,       \* self.is_initialized
    load_attempts,        \* how often initialize has run its loading code
    now,                  \* the wall clock read by time.time() / utcnow()
    request,              \* arguments of the latest analyze_text call
    cleaned_text,         \* local of analyze_text: the preprocessed text
    toxicity_analysis,    \* local of analyze_text: dict of RawSignals
    sentiment_analysis,   \* local of analyze_text: dict with 'compound'
    pattern_analysis,     \* local of analyze_text: the five pattern flags
    response,             \* what the latest analyze_text call returned
    earlier,              \* one earlier call, kept for comparison
    pc,                   \* "idle", or "classifier" while a call is inside
                          \* self.toxicity_classifier(text)
    start_time,           \* local of analyze_text: time.time() at its start
    connected,            \* Database.connected
    analysis_history,     \* Database.analysis_history: list of InMemoryRecord
    tasks,                \* where each task calling the Database stands
    returned              \* the ids store_analysis has returned, in order

vars == <<toxicity_classifier, sentiment_analyzer, is_initialized,
          load_attempts, now, request,
          cleaned_text, toxicity_analysis, sentiment_analysis,
          pattern_analysis, response, earlier, pc, start_time, connected,
          analysis_history, tasks, returned>>

analyzer ==
    <<toxicity_classifier, sentiment_analyzer, is_initialized, load_attempts>>

locals ==
    <<cleaned_text, toxicity_analysis, sentiment_analysis, pattern_analysis>>

\* the Database and the tasks that call it
database == <<connected, analysis_history, tasks, returned>>

\* where the call in progress stands
progress == <<pc, start_time>>

(***************************************************************************)
(* Python builtins.                                                        *)
(***************************************************************************)
Min(a, b) == IF a <= b THEN a ELSE b

Max(a, b) == IF a >= b THEN a ELSE b

Abs(a) == IF a < 0 THEN -a ELSE a

\* dict.get(key, default)
Get(d, key, default) == IF key \in DOMAIN d THEN d[key] ELSE default

\* a dict with key k set to v (d[k] = v)
Put(d, k, v) == [x \in DOMAIN d \cup {k} |-> IF x = k THEN v ELSE d[x]]

\* seq[:n]
Take(seq, n) == SubSeq(seq, 1, Min(n, Len(seq)))

\* float * 0.6 on hundredths
TimesSixTenths(a) == (a * 60) \div 100

(***************************************************************************)
(* schemas.py: the enumerations.                                           *)
(***************************************************************************)
HATE_SPEECH == "hate_speech"

CYBERBULLYING == "cyberbullying"

HARASSMENT == "harassment"

THREAT == "threat"

SPAM == "spam"

MISINFORMATION == "misinformation"

INAPPROPRIATE == "inappropriate"

SAFE == "safe"

ToxicityCategory ==
    {HATE_SPEECH, CYBERBULLYING, HARASSMENT, THREAT, SPAM, MISINFORMATION,
     INAPPROPRIATE, SAFE}

LOW == "low"

MEDIUM == "medium"

HIGH == "high"

CRITICAL == "critical"

SeverityLevel == {LOW, MEDIUM, HIGH, CRITICAL}

Signals == {"toxicity", "severe_toxicity", "obscene", "threat", "insult"}

PatternFlags ==
    {"has_hate_speech", "has_threats", "has_profanity", "excessive_caps",
     "excessive_punctuation"}

(***************************************************************************)
(* ContentAnalyzer._combine_analysis_scores                                *)
(***************************************************************************)
\* Variant: the caps-and-profanity boost and the return without their min(.., 1.0).
_combine_analysis_scores_unclamped(tox, sent, pat) ==
    LET base0 == Get(tox, "toxicity", 0)
        base1 == IF Get(tox, "severe_toxicity", 0) > 50
                 THEN Max(base0, 80) ELSE base0
        base2 == IF Get(tox, "threat", 0) > 30
                 THEN Max(base1, 90) ELSE base1
        sentiment_score == Get(sent, "compound", 0)
        base3 == IF sentiment_score < -50
                 THEN Max(base2, TimesSixTenths(Abs(sentiment_score)))
                 ELSE base2
        base4 == IF pat["has_threats"] THEN Max(base3, 85) ELSE base3
        base5 == IF pat["has_hate_speech"] THEN Max(base4, 75) ELSE base4
    IN  IF pat["excessive_caps"] /\ pat["has_profanity"]
        THEN base5 + 20 ELSE base5

\* Variant: a severe_toxicity above 0.5 assigns 0.8 instead of raising to it.
_combine_analysis_scores_assign(tox, sent, pat) ==
    LET base0 == Get(tox, "toxicity", 0)
        base1 == IF Get(tox, "severe_toxicity", 0) > 50 THEN 80 ELSE base0
        base2 == IF Get(tox, "threat", 0) > 30
                 THEN Max(base1, 90) ELSE base1
        sentiment_score == Get(sent, "compound", 0)
        base3 == IF sentiment_score < -50
                 THEN Max(base2, TimesSixTenths(Abs(sentiment_score)))
                 ELSE base2
        base4 == IF pat["has_threats"] THEN Max(base3, 85) ELSE base3
        base5 == IF pat["has_hate_speech"] THEN Max(base4, 75) ELSE base4
        base6 == IF pat["excessive_caps"] /\ pat["has_profanity"]
                 THEN Min(base5 + 20, 100) ELSE base5
    IN  Min(base6, 100)

\* Variant: a threat flag does not raise the score to 0.85.
_combine_analysis_scores_no_threat_floor(tox, sent, pat) ==
    LET base0 == Get(tox, "toxicity", 0)
        base1 == IF Get(tox, "severe_toxicity", 0) > 50
                 THEN Max(base0, 80) ELSE base0
        base2 == IF Get(tox, "threat", 0) > 30
                 THEN Max(base1, 90) ELSE base1
        sentiment_score == Get(sent, "compound", 0)
        base3 == IF sentiment_score < -50
                 THEN Max(base2, TimesSixTenths(Abs(sentiment_score)))
                 ELSE base2
        base5 == IF pat["has_hate_speech"] THEN Max(base3, 75) ELSE base3
        base6 == IF pat["excessive_caps"] /\ pat["has_profanity"]
                 THEN Min(base5 + 20, 100) ELSE base5
    IN  Min(base6, 100)

\* Variant: the caps-and-profanity boost is added first, before the raises.
_combine_analysis_scores_boost_first(tox, sent, pat) ==
    LET base0 == Get(tox, "toxicity", 0)
        base1 == IF pat["excessive_caps"] /\ pat["has_profanity"]
                 THEN Min(base0 + 20, 100) ELSE base0
        base2 == IF Get(tox, "severe_toxicity", 0) > 50
                 THEN Max(base1, 80) ELSE base1
        base3 == IF Get(tox, "threat", 0) > 30
                 THEN Max(base2, 90) ELSE base2
        sentiment_score == Get(sent, "compound", 0)
        base4 == IF sentiment_score < -50
                 THEN Max(base3, TimesSixTenths(Abs(sentiment_score)))
                 ELSE base3
        base5 == IF pat["has_threats"] THEN Max(base4, 85) ELSE base4
        base6 == IF pat["has_hate_speech"] THEN Max(base5, 75) ELSE base5
    IN  Min(base6, 100)

\* Variant: a hate-speech flag does not raise the score to 0.75.
_combine_analysis_scores_no_hate_floor(tox, sent, pat) ==
    LET base0 == Get(tox, "toxicity", 0)
        base1 == IF Get(tox, "severe_toxicity", 0) > 50
                 THEN Max(base0, 80) ELSE base0
        base2 == IF Get(tox, "threat", 0) > 30
                 THEN Max(base1, 90) ELSE base1
        sentiment_score == Get(sent, "compound", 0)
        base3 == IF sentiment_score < -50
                 THEN Max(base2, TimesSixTenths(Abs(sentiment_score)))
                 ELSE base2
        base4 == IF pat["has_threats"] THEN Max(base3, 85) ELSE base3
        base6 == IF pat["excessive_caps"] /\ pat["has_profanity"]
                 THEN Min(base4 + 20, 100) ELSE base4
    IN  Min(base6, 100)

_combine_analysis_scores(tox, sent, pat) ==
    LET base0 == Get(tox, "toxicity", 0)
        base1 == IF Get(tox, "severe_toxicity", 0) > 50
                 THEN Max(base0, 80) ELSE base0
        base2 == IF Get(tox, "threat", 0) > 30
                 THEN Max(base1, 90) ELSE base1
        sentiment_score == Get(sent, "compound", 0)
        base3 == IF sentiment_score < -50
                 THEN Max(base2, TimesSixTenths(Abs(sentiment_score)))
                 ELSE base2
        base4 == IF pat["has_threats"] THEN Max(base3, 85) ELSE base3
        base5 == IF pat["has_hate_speech"] THEN Max(base4, 75) ELSE base4
        base6 == IF pat["excessive_caps"] /\ pat["has_profanity"]
                 THEN Min(base5 + 20, 100) ELSE base5
    IN  Min(base6, 100)

(***************************************************************************)
(* ContentAnalyzer._determine_category                                     *)
(***************************************************************************)
\* Variant: the hate-speech branch is tried before the threat branch.
_determine_category_hate_first(tox, pat, combined_score) ==
    IF combined_score < 30 THEN SAFE
    ELSE IF pat["has_hate_speech"] \/ combined_score > 70 THEN HATE_SPEECH
    ELSE IF pat["has_threats"] \/ Get(tox, "threat", 0) > 40 THEN THREAT
    ELSE IF Get(tox, "insult", 0) > 50 /\ combined_score > 60
         THEN CYBERBULLYING
    ELSE IF combined_score > 50 THEN HARASSMENT
    ELSE INAPPROPRIATE

\* Variant: the HARASSMENT branch taken from 0.5 on, 0.5 included.
_determine_category_harassment_at_half(tox, pat, combined_score) ==
    IF combined_score < 30 THEN SAFE
    ELSE IF pat["has_threats"] \/ Get(tox, "threat", 0) > 40 THEN THREAT
    ELSE IF pat["has_hate_speech"] \/ combined_score > 70 THEN HATE_SPEECH
    ELSE IF Get(tox, "insult", 0) > 50 /\ combined_score > 60
         THEN CYBERBULLYING
    ELSE IF combined_score >= 50 THEN HARASSMENT
    ELSE INAPPROPRIATE

\* Variant: the HATE_SPEECH branch taken on the hate-speech flag alone.
_determine_category_hate_by_flag(tox, pat, combined_score) ==
    IF combined_score < 30 THEN SAFE
    ELSE IF pat["has_threats"] \/ Get(tox, "threat", 0) > 40 THEN THREAT
    ELSE IF pat["has_hate_speech"] THEN HATE_SPEECH
    ELSE IF Get(tox, "insult", 0) > 50 /\ combined_score > 60
         THEN CYBERBULLYING
    ELSE IF combined_score > 50 THEN HARASSMENT
    ELSE INAPPROPRIATE

\* Variant: the SAFE branch taken up to and including 0.3.
_determine_category_safe_at_threshold(tox, pat, combined_score) ==
    IF combined_score <= 30 THEN SAFE
    ELSE IF pat["has_threats"] \/ Get(tox, "threat", 0) > 40 THEN THREAT
    ELSE IF pat["has_hate_speech"] \/ combined_score > 70 THEN HATE_SPEECH
    ELSE IF Get(tox, "insult", 0) > 50 /\ combined_score > 60
         THEN CYBERBULLYING
    ELSE IF combined_score > 50 THEN HARASSMENT
    ELSE INAPPROPRIATE

_determine_category(tox, pat, combined_score) ==
    IF combined_score < 30 THEN SAFE
    ELSE IF pat["has_threats"] \/ Get(tox, "threat", 0) > 40 THEN THREAT
    ELSE IF pat["has_hate_speech"] \/ combined_score > 70 THEN HATE_SPEECH
    ELSE IF Get(tox, "insult", 0) > 50 /\ combined_score > 60
         THEN CYBERBULLYING
    ELSE IF combined_score > 50 THEN HARASSMENT
    ELSE INAPPROPRIATE

(***************************************************************************)
(* ContentAnalyzer._determine_severity                                     *)
(***************************************************************************)
\* Variant: no THREAT override, the score alone decides.
_determine_severity_by_score(combined_score, category) ==
    IF combined_score >= 80 THEN HIGH
    ELSE IF combined_score >= 60 THEN MEDIUM
    ELSE LOW

_determine_severity(combined_score, category) ==
    IF category = THREAT THEN CRITICAL
    ELSE IF combined_score >= 80 THEN HIGH
    ELSE IF combined_score >= 60 THEN MEDIUM
    ELSE IF combined_score >= 30 THEN LOW
    ELSE LOW

(***************************************************************************)
(* ContentAnalyzer._calculate_confidence                                   *)
(***************************************************************************)
\* Variant: the pattern bonus is not capped at 0.2 and the result is capped at 1.0.
_calculate_confidence_uncapped(tox, pat) ==
    LET confidence1 == IF Get(tox, "toxicity", 0) > 10 THEN 80 ELSE 50
        pattern_matches == Cardinality({k \in DOMAIN pat : pat[k]})
    IN  Min(confidence1 + pattern_matches * 10, 100)

_calculate_confidence(tox, pat) ==
    LET confidence0 == 50
        confidence1 == IF Get(tox, "toxicity", 0) > 10
                       THEN confidence0 + 30 ELSE confidence0
        pattern_matches == Cardinality({k \in DOMAIN pat : pat[k]})
        confidence2 == confidence1 + Min(pattern_matches * 10, 20)
    IN  Min(confidence2, 95)

(***************************************************************************)
(* ContentAnalyzer._generate_explanation                                   *)
(***************************************************************************)
SafeExplanation ==
    "This content appears to be safe and appropriate for most audiences."

explanations ==
    [k \in {HATE_SPEECH, CYBERBULLYING, HARASSMENT, THREAT, INAPPROPRIATE} |->
        CASE k = HATE_SPEECH ->
               "This content contains language that may be hurtful or discriminatory towards individuals or groups based on their identity."
          [] k = CYBERBULLYING ->
               "This content contains language that could be perceived as bullying, intimidating, or meant to cause emotional harm to someone."
          [] k = HARASSMENT ->
               "This content contains language that may be considered harassing or repeatedly targeting someone in a negative way."
          [] k = THREAT ->
               "This content contains language that could be interpreted as a threat or expression of intent to cause harm."
          [] k = INAPPROPRIATE ->
               "This content contains language that may not be appropriate for all audiences or contexts."]

BorderlineSuffix == " The content is borderline and context may be important."

ModerateSuffix == " The content shows moderate signs of toxicity."

StrongSuffix == " The content shows strong indicators of toxicity."

\* Variant: a score of exactly 0.5 still counts as borderline.
_generate_explanation_half_borderline(category, score, text) ==
    IF category = SAFE THEN SafeExplanation
    ELSE LET base_explanation ==
                 Get(explanations, category,
                     "This content has been flagged for potential toxicity.")
         IN  IF score <= 50 THEN base_explanation \o BorderlineSuffix
             ELSE IF score < 70 THEN base_explanation \o ModerateSuffix
             ELSE base_explanation \o StrongSuffix

_generate_explanation(category, score, text) ==
    IF category = SAFE THEN SafeExplanation
    ELSE LET base_explanation ==
                 Get(explanations, category,
                     "This content has been flagged for potential toxicity.")
         IN  IF score < 50 THEN base_explanation \o BorderlineSuffix
             ELSE IF score < 70 THEN base_explanation \o ModerateSuffix
             ELSE base_explanation \o StrongSuffix

(***************************************************************************)
(* ContentAnalyzer._generate_suggestions                                   *)
(***************************************************************************)
SafeSuggestion == "Great job! This content promotes positive communication."

ClosingRemark == "Remember: kind words can make someone's day better!"

base_suggestions ==
    [k \in {HATE_SPEECH, CYBERBULLYING, HARASSMENT, THREAT} |->
        CASE k = HATE_SPEECH ->
               <<"Consider using more inclusive language that doesn't target or demean groups of people",
                 "Think about how your words might affect someone from the group you're discussing",
                 "Try expressing your viewpoint without using language that could hurt others">>
          [] k = CYBERBULLYING ->
               <<"Consider how the recipient might feel reading this message",
                 "Try expressing disagreement without personal attacks",
                 "Think about whether this comment builds up or tears down the conversation">>
          [] k = HARASSMENT ->
               <<"Consider giving the person space rather than continuing to engage negatively",
                 "Try focusing on the topic rather than the person",
                 "Ask yourself if this comment is constructive or just venting">>
          [] k = THREAT ->
               <<"Express disagreement or frustration without mentioning harm",
                 "Consider taking a break before responding when you're angry",
                 "Remember that threats can have serious legal and personal consequences">>]

default_suggestions ==
    <<"Consider rephrasing your message in a more positive way",
      "Think about the impact your words might have on others",
      "Try expressing your thoughts with more empathy and understanding">>

\* suggestions[:3]
SuggestionsCap == 3

\* Variant: the list is returned without the [:3] slice.
_generate_suggestions_unsliced(category, text, user_preferences) ==
    IF category = SAFE THEN <<SafeSuggestion>>
    ELSE Append(Get(base_suggestions, category, default_suggestions),
                ClosingRemark)

\* Variant: a caller who gave preferences gets the whole list.
_generate_suggestions_by_preference(category, text, user_preferences) ==
    IF user_preferences = <<>>
    THEN IF category = SAFE THEN <<SafeSuggestion>>
         ELSE Take(Append(Get(base_suggestions, category,
                              default_suggestions), ClosingRemark),
                   SuggestionsCap)
    ELSE _generate_suggestions_unsliced(category, text, user_preferences)

_generate_suggestions(category, text, user_preferences) ==
    IF category = SAFE THEN <<SafeSuggestion>>
    ELSE LET extended == Get(base_suggestions, category, default_suggestions)
             appended == Append(extended, ClosingRemark)
         IN  Take(appended, SuggestionsCap)

(***************************************************************************)
(* ContentAnalyzer._load_support_resources                                 *)
(***************************************************************************)
_load_support_resources ==
    << [name |-> "Crisis Text Line",
        description |-> "Free 24/7 support via text message",
        contact |-> "Text HOME to 741741",
        url |-> "https://www.crisistextline.org/"],
       [name |-> "National Suicide Prevention Lifeline",
        description |-> "Free and confidential support 24/7",
        contact |-> "988",
        url |-> "https://suicidepreventionlifeline.org/"],
       [name |-> "StopBullying.gov",
        description |-> "Resources for dealing with cyberbullying",
        contact |-> "Online resources",
        url |-> "https://www.stopbullying.gov/"] >>

\* self.support_resources, set once by __init__
support_resources == _load_support_resources

(***************************************************************************)
(* schemas.py: ContentAnalysisResponse.  Constructing the response         *)
(* validates the bounded fields; a value out of bounds raises              *)
(* ValidationError instead of producing a response.                        *)
(***************************************************************************)
ContentAnalysisResponse(fields) ==
    IF /\ fields.toxicity_score >= 0 /\ fields.toxicity_score <= 100
       /\ fields.sentiment_score >= -100 /\ fields.sentiment_score <= 100
       /\ fields.confidence >= 0 /\ fields.confidence <= 100
    THEN [status |-> "ok"] @@ fields
    ELSE [status |-> "ValidationError"]

\* Variant: is_toxic compares with the caller's toxicity_threshold when given.
IsToxicByPreference(combined_score, user_preferences) ==
    IF user_preferences = <<>> THEN combined_score > 50
    ELSE combined_score > user_preferences[1].toxicity_threshold

\* is_toxic=combined_score > 0.5 (line 158): user_preferences is not read.
IsToxic(combined_score, user_preferences) == combined_score > 50

\* Variant: the support gate looks at the score alone.
NeedsSupportByScore(combined_score, category) == combined_score > 70

\* the condition of the support gate (lines 145-149)
NeedsSupport(combined_score, category) ==
    \/ combined_score > 70
    \/ category \in {THREAT, CYBERBULLYING, HATE_SPEECH}

(***************************************************************************)
(* ContentAnalyzer.analyze_text, from the fusion of the three analyses to  *)
(* the returned response (lines 114-168).  timestamp is utcnow() at the    *)
(* return, elapsed is time.time() - start_time.                            *)
(***************************************************************************)
BuildResponse(text, user_preferences, tox, sent, pat, timestamp, elapsed) ==
    LET combined_score == _combine_analysis_scores(tox, sent, pat)
        category == _determine_category(tox, pat, combined_score)
        severity == _determine_severity(combined_score, category)
        explanation == _generate_explanation(category, combined_score, text)
        suggestions == _generate_suggestions(category, text, user_preferences)
        resources ==
            IF NeedsSupport(combined_score, category)
            THEN support_resources ELSE <<>>   \* None
    IN  IF "compound" \notin DOMAIN sent
        THEN [status |-> "KeyError"]
        ELSE ContentAnalysisResponse(
               [text |-> text,
                toxicity_score |-> combined_score,
                is_toxic |-> IsToxic(combined_score, user_preferences),
                category |-> category,
                severity |-> severity,
                sentiment_score |-> sent["compound"],
                confidence |-> _calculate_confidence(tox, pat),
                explanation |-> explanation,
                suggestions |-> suggestions,
                support_resources |-> resources,
                analysis_timestamp |-> timestamp,
                processing_time_ms |-> elapsed])

NoResponse == [status |-> "none"]

(***************************************************************************)
(* Text.  A str is a sequence of characters (one-character strings); the   *)
(* re module's \s, \b, [a-z] and [A-Z] are the sets below.                 *)
(***************************************************************************)
LowerLetters == <<"a", "b", "c", "d", "e", "f", "g", "h", "i", "j", "k", "l", "m", "n", "o", "p", "q", "r", "s", "t", "u", "v", "w", "x", "y", "z">>

UpperLetters == <<"A", "B", "C", "D", "E", "F", "G", "H", "I", "J", "K", "L", "M", "N", "O", "P", "Q", "R", "S", "T", "U", "V", "W", "X", "Y", "Z">>

Whitespace == {" ", "\t", "\n", "\r"}

\* \w
WordChars ==
    {LowerLetters[i] : i \in 1..26} \cup {UpperLetters[i] : i \in 1..26}
        \cup {"0", "1", "2", "3", "4", "5", "6", "7", "8", "9", "_"}

IsUpper(c) == \E i \in 1..26 : UpperLetters[i] = c

IsLetter(c) == \E i \in 1..26 : UpperLetters[i] = c \/ LowerLetters[i] = c

LowerChar(c) ==
    IF IsUpper(c)
    THEN LowerLetters[CHOOSE i \in 1..26 : UpperLetters[i] = c]
    ELSE c

\* str.lower()
Lower(s) == [i \in 1..Len(s) |-> LowerChar(s[i])]

Drop(s, n) == SubSeq(s, n + 1, Len(s))

\* the number of leading characters of s that belong to set
RECURSIVE LeadingIn(_, _)
LeadingIn(s, set) ==
    IF s = <<>> \/ Head(s) \notin set THEN 0
    ELSE 1 + LeadingIn(Tail(s), set)

\* the number of trailing characters of s that belong to set
RECURSIVE TrailingIn(_, _)
TrailingIn(s, set) ==
    IF s = <<>> \/ s[Len(s)] \notin set THEN 0
    ELSE 1 + TrailingIn(SubSeq(s, 1, Len(s) - 1), set)

\* str.strip()
Strip(s) ==
    LET lead == LeadingIn(s, Whitespace)
    IN  IF lead = Len(s) THEN <<>>
        ELSE SubSeq(s, lead + 1, Len(s) - TrailingIn(s, Whitespace))

\* re.sub(r'\s+', ' ', s)
RECURSIVE CollapseWhitespace(_)
CollapseWhitespace(s) ==
    IF s = <<>> THEN <<>>
    ELSE IF Head(s) \in Whitespace
         THEN <<" ">> \o CollapseWhitespace(Drop(s, LeadingIn(s, Whitespace)))
         ELSE <<Head(s)>> \o CollapseWhitespace(Tail(s))

\* re.sub(r'(.)\1{3,}', r'\1\1', s); '.' is any character but a newline
RECURSIVE ReduceRepeats(_)
ReduceRepeats(s) ==
    IF s = <<>> THEN <<>>
    ELSE LET run == LeadingIn(s, {Head(s)})
         IN  IF run >= 4 /\ Head(s) # "\n"
             THEN <<Head(s), Head(s)>> \o ReduceRepeats(Drop(s, run))
             ELSE <<Head(s)>> \o ReduceRepeats(Tail(s))

(***************************************************************************)
(* ContentAnalyzer._preprocess_text                                        *)
(***************************************************************************)
\* Variant: the text is not stripped before its whitespace is collapsed.
_preprocess_text_no_strip(text) == ReduceRepeats(CollapseWhitespace(text))

_preprocess_text(text) == ReduceRepeats(CollapseWhitespace(Strip(text)))

(***************************************************************************)
(* Regular-expression search, for the shapes the analyzer compiles.        *)
(***************************************************************************)
IsWordAt(s, i) == i >= 1 /\ i <= Len(s) /\ s[i] \in WordChars

\* \b between s[i-1] and s[i]
Boundary(s, i) == IsWordAt(s, i - 1) # IsWordAt(s, i)

\* the literal w occurs in s at index i
LiteralAt(s, i, w) ==
    /\ i >= 1
    /\ i + Len(w) - 1 <= Len(s)
    /\ \A j \in 1..Len(w) : s[i + j - 1] = w[j]

\* A phrase is a sequence of literals joined by \s+.  The index just after the
\* phrase when it occurs in s at index i, and 0 when it does not.
RECURSIVE PhraseEnd(_, _, _)
PhraseEnd(s, i, phrase) ==
    IF ~LiteralAt(s, i, Head(phrase)) THEN 0
    ELSE LET j == i + Len(Head(phrase))
             gap == LeadingIn(Drop(s, j - 1), Whitespace)
         IN  IF Len(phrase) = 1 THEN j
             ELSE IF gap = 0 THEN 0
             ELSE PhraseEnd(s, j + gap, Tail(phrase))

\* re.compile(r'\b(phrase|phrase|...)\b').search(s)
SearchPhrases(phrases, s) ==
    \E i \in 1..Len(s) :
        /\ Boundary(s, i)
        /\ \E phrase \in phrases :
              LET e == PhraseEnd(s, i, phrase)
              IN  e > 0 /\ Boundary(s, e)

\* re.compile(r'\b[a-z]*(stem|stem)[a-z]*\b', re.IGNORECASE).search(s)
SearchStems(stems, s) ==
    \E k \in 1..Len(s) : \E stem \in stems :
        /\ LiteralAt(s, k, stem)
        /\ \E a \in 1..k :
              /\ Boundary(s, a)
              /\ \A x \in a..(k - 1) : IsLetter(s[x])
        /\ \E e \in (k + Len(stem))..(Len(s) + 1) :
              /\ Boundary(s, e)
              /\ \A x \in (k + Len(stem))..(e - 1) : IsLetter(s[x])

\* (a|b)\s+(c|d): every first part followed by every second part
Then(firsts, seconds) == {a \o b : a \in firsts, b \in seconds}

(***************************************************************************)
(* ContentAnalyzer._compile_hate_speech_patterns, _compile_threat_patterns *)
(* and _compile_profanity_patterns: each a list of three patterns.         *)
(***************************************************************************)
_compile_hate_speech_patterns ==
    << Then({<<<<"h", "a", "t", "e">>>>, <<<<"d", "e", "s", "p", "i", "s", "e">>>>, <<<<"l", "o", "a", "t", "h", "e">>>>},
            {<<<<"y", "o", "u">>>>, <<<<"t", "h", "e", "m">>>>, <<<<"t", "h", "o", "s", "e">>>>}),
       Then({<<<<"k", "i", "l", "l">>>>, <<<<"d", "i", "e">>>>, <<<<"d", "e", "a", "t", "h">>>>},
            {<<<<"y", "o", "u", "r", "s", "e", "l", "f">>>>, <<<<"y", "o", "u", "r", "s", "e", "l", "v", "e", "s">>>>}),
       Then({<<<<"s", "t", "u", "p", "i", "d">>>>, <<<<"i", "d", "i", "o", "t">>>>, <<<<"m", "o", "r", "o", "n">>>>},
            {<<<<"p", "e", "o", "p", "l", "e">>>>, <<<<"p", "e", "r", "s", "o", "n">>>>}) >>

_compile_threat_patterns ==
    << Then({<<<<"g", "o", "i", "n", "g">>, <<"t", "o">>>>, <<<<"g", "o", "n", "n", "a">>>>, <<<<"w", "i", "l", "l">>>>},
            {<<<<"k", "i", "l", "l">>>>, <<<<"h", "u", "r", "t">>>>, <<<<"h", "a", "r", "m">>>>, <<<<"b", "e", "a", "t">>>>,
             <<<<"d", "e", "s", "t", "r", "o", "y">>>>}),
       {<<<<"w", "a", "t", "c", "h">>, <<"o", "u", "t">>>>, <<<<"b", "e">>, <<"c", "a", "r", "e", "f", "u", "l">>>>,
        <<<<"y", "o", "u">>, <<"b", "e", "t", "t", "e", "r">>>>},
       {<<<<"o", "r">>, <<"e", "l", "s", "e">>>>} >>

_compile_profanity_patterns ==
    << {<<"s", "h", "i", "t">>, <<"s", "h", "1", "t">>},
       {<<"d", "a", "m", "n">>, <<"d", "4", "m", "n">>},
       {<<"c", "r", "a", "p">>, <<"c", "r", "4", "p">>} >>

\* self.hate_speech_patterns, self.threat_patterns, self.profanity_patterns
hate_speech_patterns == _compile_hate_speech_patterns

threat_patterns == _compile_threat_patterns

profanity_patterns == _compile_profanity_patterns

\* sum(1 for pattern in patterns if pattern.search(text))
CountPhraseMatches(patterns, s) ==
    Cardinality({n \in 1..Len(patterns) : SearchPhrases(patterns[n], s)})

CountStemMatches(patterns, s) ==
    Cardinality({n \in 1..Len(patterns) : SearchStems(patterns[n], s)})

\* len(re.findall(r'[A-Z]{4,}', s)): the maximal runs of 4 or more capitals
RECURSIVE CountCapsRuns(_)
CountCapsRuns(s) ==
    IF s = <<>> THEN 0
    ELSE LET run == LeadingIn(s, {UpperLetters[i] : i \in 1..26})
         IN  IF run = 0 THEN CountCapsRuns(Tail(s))
             ELSE (IF run >= 4 THEN 1 ELSE 0) + CountCapsRuns(Drop(s, run))

\* len(re.findall(r'[!?]{3,}', s)) > 0
HasPunctuationRun(s) ==
    \E i \in 1..Len(s) : LeadingIn(Drop(s, i - 1), {"!", "?"}) >= 3

(***************************************************************************)
(* ContentAnalyzer._rule_based_toxicity_analysis                           *)
(***************************************************************************)
\* Variant: the threat score is not cut at 1.0.
_rule_based_toxicity_analysis_uncapped(text) ==
    LET text_lower == Lower(text)
        hate_matches == CountPhraseMatches(hate_speech_patterns, text_lower)
        threat_matches == CountPhraseMatches(threat_patterns, text_lower)
        profanity_matches == CountStemMatches(profanity_patterns, text_lower)
    IN  [toxicity |-> IF hate_matches > 0
                      THEN Min(30 + hate_matches * 20, 100) ELSE 0,
         severe_toxicity |-> IF threat_matches > 0 THEN Max(0, 70) ELSE 0,
         obscene |-> IF profanity_matches > 0
                     THEN Min(20 + profanity_matches * 20, 100) ELSE 0,
         threat |-> IF threat_matches > 0
                    THEN 40 + threat_matches * 30 ELSE 0,
         insult |-> IF profanity_matches > 0
                    THEN Min(30 + profanity_matches * 10, 100) ELSE 0]

\* Variant: any threat match scores 0.7, however many patterns match.
_rule_based_toxicity_analysis_flat_threat(text) ==
    LET text_lower == Lower(text)
        hate_matches == CountPhraseMatches(hate_speech_patterns, text_lower)
        threat_matches == CountPhraseMatches(threat_patterns, text_lower)
        profanity_matches == CountStemMatches(profanity_patterns, text_lower)
    IN  [toxicity |-> IF hate_matches > 0
                      THEN Min(30 + hate_matches * 20, 100) ELSE 0,
         severe_toxicity |-> IF threat_matches > 0 THEN Max(0, 70) ELSE 0,
         obscene |-> IF profanity_matches > 0
                     THEN Min(20 + profanity_matches * 20, 100) ELSE 0,
         threat |-> IF threat_matches > 0 THEN 70 ELSE 0,
         insult |-> IF profanity_matches > 0
                    THEN Min(30 + profanity_matches * 10, 100) ELSE 0]

_rule_based_toxicity_analysis(text) ==
    LET text_lower == Lower(text)
        hate_matches == CountPhraseMatches(hate_speech_patterns, text_lower)
        threat_matches == CountPhraseMatches(threat_patterns, text_lower)
        profanity_matches == CountStemMatches(profanity_patterns, text_lower)
    IN  [toxicity |-> IF hate_matches > 0
                      THEN Min(30 + hate_matches * 20, 100) ELSE 0,
         severe_toxicity |-> IF threat_matches > 0 THEN Max(0, 70) ELSE 0,
         obscene |-> IF profanity_matches > 0
                     THEN Min(20 + profanity_matches * 20, 100) ELSE 0,
         threat |-> IF threat_matches > 0
                    THEN Min(40 + threat_matches * 30, 100) ELSE 0,
         insult |-> IF profanity_matches > 0
                    THEN Min(30 + profanity_matches * 10, 100) ELSE 0]

(***************************************************************************)
(* ContentAnalyzer._analyze_patterns                                       *)
(***************************************************************************)
_analyze_patterns(text) ==
    LET text_lower == Lower(text)
    IN  [has_hate_speech |->
             \E n \in 1..Len(hate_speech_patterns) :
                 SearchPhrases(hate_speech_patterns[n], text_lower),
         has_threats |->
             \E n \in 1..Len(threat_patterns) :
                 SearchPhrases(threat_patterns[n], text_lower),
         has_profanity |->
             \E n \in 1..Len(profanity_patterns) :
                 SearchStems(profanity_patterns[n], text_lower),
         excessive_caps |-> CountCapsRuns(text) > 2,
         excessive_punctuation |-> HasPunctuationRun(text)]

(***************************************************************************)
(* What the analyzer is given in this model: the texts of the requests,    *)
(* what the external classifier does when called, and the compound the     *)
(* sentiment analyzer returns.                                             *)
(***************************************************************************)
Text_Wonderful == <<"H", "a", "v", "e", " ", "a", " ", "w", "o", "n", "d", "e", "r", "f", "u", "l", " ", "d", "a", "y", "!">>

Text_Threat == <<"I", " ", "w", "i", "l", "l", " ", "k", "i", "l", "l", " ", "y", "o", "u", " ", "o", "r", " ", "e", "l", "s", "e">>

Text_Shouted == <<" ", "S", "T", "O", "P", " ", " ", "T", "H", "I", "S", " ", "D", "A", "M", "N", " ", "C", "R", "A", "P", " ", "N", "O", "O", "O", "O", "W", "!", "!", "!", " ">>

Texts == {Text_Wonderful, Text_Threat, Text_Shouted}

ContextChoices == {<<>>}

Raises == [kind |-> "raise", results |-> <<>>]

\* the six labels of unitary/toxic-bert
BertResults ==
    [kind |-> "results",
     results |-> << [label |-> <<"t", "o", "x", "i", "c">>, score |-> 60],
                    [label |-> <<"s", "e", "v", "e", "r", "e", "_", "t", "o", "x", "i", "c">>, score |-> 10],
                    [label |-> <<"o", "b", "s", "c", "e", "n", "e">>, score |-> 20],
                    [label |-> <<"t", "h", "r", "e", "a", "t">>, score |-> 5],
                    [label |-> <<"i", "n", "s", "u", "l", "t">>, score |-> 55],
                    [label |-> <<"i", "d", "e", "n", "t", "i", "t", "y", "_", "h", "a", "t", "e">>, score |-> 50] >>]

CustomResults ==
    [kind |-> "results",
     results |-> << [label |-> <<"S", "E", "V", "E", "R", "E">>, score |-> 55],
                    [label |-> <<"I", "n", "s", "u", "l", "t">>, score |-> 60],
                    [label |-> <<"s", "p", "a", "m">>, score |-> 90] >>]

ClassifierOutcomes == {Raises, BertResults, CustomResults}

SentimentChoices == {-75, 30}

(***************************************************************************)
(* The text functions over the texts of the model, each value computed     *)
(* once from the definitions above.                                        *)
(***************************************************************************)
CleanedOf == [t \in Texts |-> _preprocess_text(t)]

CleanedTexts == {CleanedOf[t] : t \in Texts}

RuleBasedOf == [c \in CleanedTexts |-> _rule_based_toxicity_analysis(c)]

PatternsOf == [c \in CleanedTexts |-> _analyze_patterns(c)]

(***************************************************************************)
(* ContentAnalyzer._analyze_toxicity.  The external classifier either      *)
(* raises or returns results, whose first element is a list of label and   *)
(* score pairs.                                                            *)
(***************************************************************************)
\* 'sub' in s
Contains(sub, s) == \E i \in 1..Len(s) : LiteralAt(s, i, sub)

\* Variant: the 'severe' test comes before the 'toxic' / 'hate' test.
ScoreLabel_severe_first(scores, result) ==
    LET label == Lower(result.label)
        score == result.score
    IN  IF Contains(<<"s", "e", "v", "e", "r", "e">>, label)
        THEN Put(scores, "severe_toxicity", score)
        ELSE IF Contains(<<"t", "o", "x", "i", "c">>, label) \/ Contains(<<"h", "a", "t", "e">>, label)
        THEN Put(scores, "toxicity", score)
        ELSE IF Contains(<<"o", "b", "s", "c", "e", "n", "e">>, label)
        THEN Put(scores, "obscene", score)
        ELSE IF Contains(<<"t", "h", "r", "e", "a", "t">>, label)
        THEN Put(scores, "threat", score)
        ELSE IF Contains(<<"i", "n", "s", "u", "l", "t">>, label)
        THEN Put(scores, "insult", score)
        ELSE scores

\* the loop body: one result folded into scores
ScoreLabel(scores, result) ==
    LET label == Lower(result.label)
        score == result.score
    IN  IF Contains(<<"t", "o", "x", "i", "c">>, label) \/ Contains(<<"h", "a", "t", "e">>, label)
        THEN Put(scores, "toxicity", score)
        ELSE IF Contains(<<"s", "e", "v", "e", "r", "e">>, label)
        THEN Put(scores, "severe_toxicity", score)
        ELSE IF Contains(<<"o", "b", "s", "c", "e", "n", "e">>, label)
        THEN Put(scores, "obscene", score)
        ELSE IF Contains(<<"t", "h", "r", "e", "a", "t">>, label)
        THEN Put(scores, "threat", score)
        ELSE IF Contains(<<"i", "n", "s", "u", "l", "t">>, label)
        THEN Put(scores, "insult", score)
        ELSE scores

\* for result in results[0]: ...
RECURSIVE ConvertResults(_, _)
ConvertResults(scores, results) ==
    IF results = <<>> THEN scores
    ELSE ConvertResults(ScoreLabel(scores, Head(results)), Tail(results))

\* the conversion loop over what each outcome of the model returns
ConvertedOf == [o \in ClassifierOutcomes |-> ConvertResults(<<>>, o.results)]

\* Variant: the except branch returns the scores gathered so far (none)
\* instead of the rule-based analysis.
_analyze_toxicity_no_fallback(classifier, outcome, text) ==
    IF classifier = "None" THEN RuleBasedOf[text]
    ELSE IF outcome.kind = "raise" THEN <<>>
    ELSE ConvertedOf[outcome]

\* text is the cleaned text; the classifier is called only when one is loaded
_analyze_toxicity(classifier, outcome, text) ==
    IF classifier = "None" THEN RuleBasedOf[text]
    ELSE IF outcome.kind = "raise" THEN RuleBasedOf[text]
    ELSE ConvertedOf[outcome]


(***************************************************************************)
(* The analyzer right after ContentAnalyzer.__init__                       *)
(***************************************************************************)
Constructed ==
    /\ toxicity_classifier = "None"
    /\ sentiment_analyzer = "None"
    /\ is_initialized = FALSE
    /\ load_attempts = 0

NoCall == [status |-> "none"]

\* cleaned_text before any call has assigned it
NotCleaned == <<"none">>

(***************************************************************************)
(* database.py: the Database right after Database.__init__, with the tasks *)
(* that will call it.                                                      *)
(***************************************************************************)
MaxTasks == 2

DbTasks == 1..MaxTasks

Idle == [pc |-> "idle"]

DatabaseConstructed ==
    /\ connected = FALSE
    /\ analysis_history = <<>>
    /\ tasks = [t \in DbTasks |-> Idle]
    /\ returned = <<>>

(***************************************************************************)
(* Fusion and classification on their own: the three analyses are drawn    *)
(* from grids that hold every threshold of the code, the value next above  *)
(* it and a value below it, and the rest of analyze_text is applied to     *)
(* them.  A signal may be missing from the dict, as on the classifier      *)
(* path; toxicity -10 and compound -150 are what a misbehaving             *)
(* collaborator may hand in, and so is a sentiment answer with no          *)
(* compound.                                                               *)
(***************************************************************************)
ToxicityGrid == {-10, 10, 30, 50, 60, 70, 100}

SevereGrid == {50, 55}

ObsceneGrid == {20}

ThreatGrid == {30, 40, 45}

InsultGrid == {50, 55}

CompoundGrid == {-150, -75, -50, 30}

\* either no entry for the key, or one of the grid's values
Entries(key, grid) == {<<>>} \cup {key :> v : v \in grid}

\* An Optional argument is <<>> for None and <<v>> for the value v.
PreferenceChoices == {<<>>, <<[toxicity_threshold |-> 30]>>}

HarnessRequests ==
    [text : {<<"h", "i">>}, context : {<<>>},
     user_preferences : PreferenceChoices]

InitFusion ==
    /\ Constructed
    /\ now = 0
    /\ request \in HarnessRequests
    /\ cleaned_text = _preprocess_text(request.text)
    /\ \E t \in Entries("toxicity", ToxicityGrid),
          s \in Entries("severe_toxicity", SevereGrid),
          o \in Entries("obscene", ObsceneGrid),
          th \in Entries("threat", ThreatGrid),
          i \in Entries("insult", InsultGrid) :
            toxicity_analysis = t @@ s @@ o @@ th @@ i
    /\ sentiment_analysis \in Entries("compound", CompoundGrid)
    /\ pattern_analysis \in [PatternFlags -> BOOLEAN]
    /\ response = NoResponse
    /\ earlier = NoCall
    /\ pc = "idle"
    /\ start_time = 0
    /\ DatabaseConstructed

Fuse ==
    /\ response = NoResponse
    /\ response' = BuildResponse(request.text, request.user_preferences,
                                 toxicity_analysis, sentiment_analysis,
                                 pattern_analysis, now, 0)
    /\ UNCHANGED <<analyzer, now, request, locals, earlier, progress, database>>

NextFusion == Fuse

SpecFusion == InitFusion /\ [][NextFusion]_vars

(***************************************************************************)
(* The rule-based analysis on its own: the texts are made of one or more   *)
(* of the phrases below, joined by a space, and the steps of analyze_text  *)
(* that run when no classifier is loaded are applied to them: the text is  *)
(* cleaned, scored by _rule_based_toxicity_analysis and searched by        *)
(* _analyze_patterns.                                                      *)
(***************************************************************************)
Fragment_Hello == <<"h", "e", "l", "l", "o", " ", "t", "h", "e", "r", "e">>

Fragment_Hate == <<"I", " ", "h", "a", "t", "e", " ", "y", "o", "u">>

Fragment_Insults == <<"k", "i", "l", "l", " ", "y", "o", "u", "r", "s", "e", "l", "f", " ", "y", "o", "u", " ", "s", "t", "u", "p", "i", "d", " ", "p", "e", "r", "s", "o", "n">>

Fragment_WatchOut == <<"w", "a", "t", "c", "h", " ", "o", "u", "t">>

Fragment_Better == <<"Y", "o", "u", " ", " ", "B", "E", "T", "T", "E", "R", " ", "s", "t", "o", "p">>

Fragment_Hurt == <<"I", " ", "w", "i", "l", "l", " ", "h", "u", "r", "t", " ", "y", "o", "u", " ", "o", "r", " ", "e", "l", "s", "e">>

Fragment_Crap == <<"t", "h", "i", "s", " ", "i", "s", " ", "c", "r", "a", "p">>

Fragment_Swearing == <<"d", "a", "m", "n", " ", "s", "h", "i", "t">>

Fragments ==
    {Fragment_Hello, Fragment_Hate, Fragment_Insults, Fragment_WatchOut,
     Fragment_Better, Fragment_Hurt, Fragment_Crap, Fragment_Swearing}

MaxFragments == 2

\* ' '.join(fragments)
RECURSIVE Joined(_)
Joined(fragments) ==
    IF Len(fragments) = 1 THEN Head(fragments)
    ELSE Head(fragments) \o <<" ">> \o Joined(Tail(fragments))

RuleTexts ==
    {Joined(fs) : fs \in UNION {[1..n -> Fragments] : n \in 1..MaxFragments}}

InitRules ==
    /\ Constructed
    /\ now = 0
    /\ request \in {[text |-> t, context |-> <<>>] : t \in RuleTexts}
    /\ cleaned_text = NotCleaned
    /\ toxicity_analysis = <<>>
    /\ sentiment_analysis = <<>>
    /\ pattern_analysis = <<>>
    /\ response = NoResponse
    /\ earlier = NoCall
    /\ pc = "idle"
    /\ start_time = 0
    /\ DatabaseConstructed

\* lines 107, 110 with no classifier loaded (188-190), and 112
ScoreByRules ==
    LET cleaned == _preprocess_text(request.text)
    IN  /\ toxicity_analysis = <<>>
        /\ cleaned_text' = cleaned
        /\ toxicity_analysis' = _rule_based_toxicity_analysis(cleaned)
        /\ pattern_analysis' = _analyze_patterns(cleaned)
        /\ UNCHANGED <<analyzer, now, request, sentiment_analysis, response,
                       earlier, progress, database>>

NextRules == ScoreByRules

SpecRules == InitRules /\ [][NextRules]_vars

(***************************************************************************)
(* Preprocessing alone (line 107), on every text over a small alphabet:    *)
(* two letters, the space and the newline.                                 *)
(***************************************************************************)
Alphabet == {"a", "b", " ", "\n"}

MaxTextLen == 6

AlphabetTexts == UNION {[1..n -> Alphabet] : n \in 0..MaxTextLen}

InitText ==
    /\ Constructed
    /\ now = 0
    /\ request \in {[text |-> t, context |-> <<>>] : t \in AlphabetTexts}
    /\ cleaned_text = NotCleaned
    /\ toxicity_analysis = <<>>
    /\ sentiment_analysis = <<>>
    /\ pattern_analysis = <<>>
    /\ response = NoResponse
    /\ earlier = NoCall
    /\ pc = "idle"
    /\ start_time = 0
    /\ DatabaseConstructed

\* line 107
Preprocess ==
    /\ cleaned_text = NotCleaned
    /\ cleaned_text' = _preprocess_text(request.text)
    /\ UNCHANGED <<analyzer, now, request, toxicity_analysis,
                   sentiment_analysis, pattern_analysis, response, earlier,
                   progress, database>>

NextText == Preprocess

SpecText == InitText /\ [][NextText]_vars

(***************************************************************************)
(* ContentAnalyzer.initialize: what it leaves in the analyzer.  load_ok    *)
(* tells whether loading the models succeeds, attempted whether the call   *)
(* went past the early return into the loading code (lines 61-84).         *)
(***************************************************************************)
\* Variant: no early return when the analyzer is already initialized.
initialize_again(classifier, sentiment, initialized, load_ok) ==
    IF load_ok
    THEN [toxicity_classifier |-> "pipeline", sentiment_analyzer |-> "vader",
          is_initialized |-> TRUE, attempted |-> TRUE]
    ELSE [toxicity_classifier |-> "None", sentiment_analyzer |-> "vader",
          is_initialized |-> TRUE, attempted |-> TRUE]

\* Variant: the early return is taken only when a classifier is installed,
\* so a failed load is tried again.
initialize_retrying(classifier, sentiment, initialized, load_ok) ==
    IF initialized /\ classifier # "None"
    THEN [toxicity_classifier |-> classifier, sentiment_analyzer |-> sentiment,
          is_initialized |-> initialized, attempted |-> FALSE]
    ELSE IF load_ok
    THEN [toxicity_classifier |-> "pipeline", sentiment_analyzer |-> "vader",
          is_initialized |-> TRUE, attempted |-> TRUE]
    ELSE [toxicity_classifier |-> "None", sentiment_analyzer |-> "vader",
          is_initialized |-> TRUE, attempted |-> TRUE]

initialize(classifier, sentiment, initialized, load_ok) ==
    IF initialized
    THEN [toxicity_classifier |-> classifier, sentiment_analyzer |-> sentiment,
          is_initialized |-> initialized, attempted |-> FALSE]
    ELSE IF load_ok
    THEN [toxicity_classifier |-> "pipeline", sentiment_analyzer |-> "vader",
          is_initialized |-> TRUE, attempted |-> TRUE]
    ELSE [toxicity_classifier |-> "None", sentiment_analyzer |-> "vader",
          is_initialized |-> TRUE, attempted |-> TRUE]

\* Variant: analyze_text loads the models again at every call.
ensure_initialized_reloading(classifier, sentiment, initialized, load_ok) ==
    initialize_again(classifier, sentiment, initialized, load_ok)

\* lines 103-104: if not self.is_initialized: await self.initialize()
ensure_initialized(classifier, sentiment, initialized, load_ok) ==
    IF ~initialized
    THEN initialize(classifier, sentiment, initialized, load_ok)
    ELSE [toxicity_classifier |-> classifier, sentiment_analyzer |-> sentiment,
          is_initialized |-> initialized, attempted |-> FALSE]

(***************************************************************************)
(* The analyzer in service: initialize() and analyze_text() are called in  *)
(* any order while time passes.  analyze_text has no suspension point of   *)
(* its own (the classifier is called synchronously), so a call is one      *)
(* step.  What the collaborators answer is chosen with the call: the       *)
(* classifier raises or returns results, the sentiment analyzer returns a  *)
(* compound.                                                               *)
(***************************************************************************)
MaxClock == 1

\* the runs of the loading code that are counted
MaxLoads == 2

\* load_attempts after a call that left a in the analyzer
CountLoad(a) ==
    /\ a.attempted => load_attempts < MaxLoads
    /\ load_attempts' = load_attempts + (IF a.attempted THEN 1 ELSE 0)

\* whether loading succeeds matters only to a call that loads
LoadChoices == IF is_initialized THEN {TRUE} ELSE BOOLEAN

Init ==
    /\ Constructed
    /\ now = 0
    /\ request = NoCall
    /\ cleaned_text = NotCleaned
    /\ toxicity_analysis = <<>>
    /\ sentiment_analysis = <<>>
    /\ pattern_analysis = <<>>
    /\ response = NoResponse
    /\ earlier = NoCall
    /\ pc = "idle"
    /\ start_time = 0
    /\ DatabaseConstructed

\* await content_analyzer.initialize()
Initialize ==
    \E load_ok \in LoadChoices :
        LET a == initialize(toxicity_classifier, sentiment_analyzer,
                            is_initialized, load_ok)
        IN  /\ pc = "idle"
            /\ toxicity_classifier' = a.toxicity_classifier
            /\ sentiment_analyzer' = a.sentiment_analyzer
            /\ is_initialized' = a.is_initialized
            /\ CountLoad(a)
            /\ UNCHANGED <<now, request, locals, response, earlier, progress,
                           database>>

\* await content_analyzer.analyze_text(text, context, user_preferences):
\* the call, on every variable of the analyzer and of the call.  recorded is
\* what request keeps of the call: the arguments and what the two analyzers
\* answered.
Analyze(text, context, user_preferences, load_ok, outcome, compound, elapsed, recorded) ==
    LET a == ensure_initialized(toxicity_classifier, sentiment_analyzer,
                                is_initialized, load_ok)
        cleaned == CleanedOf[text]
        tox == _analyze_toxicity(a.toxicity_classifier, outcome, cleaned)
        sent == [compound |-> compound]
        pat == PatternsOf[cleaned]
    IN  /\ pc = "idle"
        /\ cleaned_text' = cleaned
        /\ UNCHANGED database
        /\ start_time' = now
        /\ pc' = "idle"
        /\ toxicity_classifier' = a.toxicity_classifier
        /\ sentiment_analyzer' = a.sentiment_analyzer
        /\ is_initialized' = a.is_initialized
        /\ CountLoad(a)
        /\ now' = now + elapsed
        /\ request' = recorded
        /\ toxicity_analysis' = tox
        /\ sentiment_analysis' = sent
        /\ pattern_analysis' = pat
        /\ response' = BuildResponse(text, user_preferences, tox, sent, pat,
                                     now + elapsed, elapsed)

\* a call by any caller: user_preferences is passed on and never read, so
\* request does not record it
Call ==
    \E text \in Texts, context \in ContextChoices,
       user_preferences \in PreferenceChoices, load_ok \in LoadChoices,
       outcome \in ClassifierOutcomes, compound \in SentimentChoices,
       elapsed \in 0..(MaxClock - now) :
        Analyze(text, context, user_preferences, load_ok, outcome, compound,
                elapsed,
                [text |-> text, context |-> context,
                 classifier |-> outcome, sentiment |-> compound])

AnalyzeText == Call /\ UNCHANGED earlier


\* time passes, between calls or while a call is inside the classifier
Tick ==
    /\ now < MaxClock
    /\ now' = now + 1
    /\ UNCHANGED <<analyzer, request, locals, response, earlier, progress,
                   database>>

Next == Initialize \/ AnalyzeText \/ Tick

Spec == Init /\ [][Next]_vars

(***************************************************************************)
(* The same analyzer with one earlier call kept beside the latest one, so  *)
(* that two calls of one run can be compared: a call may first put the     *)
(* latest request and response aside, once.                                *)
(***************************************************************************)
AnalyzeTextKeeping ==
    /\ Call
    /\ request # NoCall
    /\ earlier = NoCall
    /\ earlier' = [status |-> "kept", request |-> request,
                   response |-> response]

NextPair == Initialize \/ AnalyzeText \/ Tick \/ AnalyzeTextKeeping

SpecPair == Init /\ [][NextPair]_vars

(***************************************************************************)
(* The same pair of calls when the callers differ: each call comes with    *)
(* its own context and user_preferences, and request records them.         *)
(***************************************************************************)
CallerContexts == {<<>>, <<"social_media">>}

CallerTexts == {Text_Threat}

CallerOutcomes == {Raises, BertResults}

CallAs ==
    \E text \in CallerTexts, context \in CallerContexts,
       user_preferences \in PreferenceChoices, load_ok \in LoadChoices,
       outcome \in CallerOutcomes, compound \in SentimentChoices,
       elapsed \in 0..(MaxClock - now) :
        Analyze(text, context, user_preferences, load_ok, outcome, compound,
                elapsed,
                [text |-> text, context |-> context,
                 user_preferences |-> user_preferences,
                 classifier |-> outcome, sentiment |-> compound])

AnalyzeTextAs == CallAs /\ UNCHANGED earlier

AnalyzeTextAsKeeping ==
    /\ CallAs
    /\ request # NoCall
    /\ earlier = NoCall
    /\ earlier' = [status |-> "kept", request |-> request,
                   response |-> response]

NextCallers == Initialize \/ AnalyzeTextAs \/ Tick \/ AnalyzeTextAsKeeping

SpecCallers == Init /\ [][NextCallers]_vars

(***************************************************************************)
(* The same analyzer when the external classifier takes time to answer.    *)
(* self.toxicity_classifier(text) is an ordinary synchronous call (line    *)
(* 194): the call of analyze_text stays inside it, and with it the event   *)
(* loop, until the classifier returns or raises.  Nothing in analyze_text  *)
(* or _analyze_toxicity bounds that wait, so time may pass meanwhile.      *)
(***************************************************************************)
\* analyze_text from its start to the classifier call (lines 101-110, 188-194)
EnterClassifier ==
    \E text \in Texts, context \in ContextChoices,
       user_preferences \in PreferenceChoices, load_ok \in LoadChoices :
        LET a == ensure_initialized(toxicity_classifier, sentiment_analyzer,
                                    is_initialized, load_ok)
        IN  /\ pc = "idle"
            /\ a.toxicity_classifier # "None"
            /\ start_time' = now
            /\ pc' = "classifier"
            /\ toxicity_classifier' = a.toxicity_classifier
            /\ sentiment_analyzer' = a.sentiment_analyzer
            /\ is_initialized' = a.is_initialized
            /\ CountLoad(a)
            /\ request' = [text |-> text, context |-> context,
                           user_preferences |-> user_preferences]
            /\ cleaned_text' = CleanedOf[text]
            /\ UNCHANGED <<now, toxicity_analysis, sentiment_analysis,
                           pattern_analysis, response, earlier, database>>

\* the classifier returns or raises, and analyze_text runs to its return
\* (lines 194-217, 111-168)
LeaveClassifier ==
    \E outcome \in ClassifierOutcomes, compound \in SentimentChoices :
        LET tox == _analyze_toxicity(toxicity_classifier, outcome,
                                     cleaned_text)
            sent == [compound |-> compound]
            pat == PatternsOf[cleaned_text]
        IN  /\ pc = "classifier"
            /\ pc' = "idle"
            /\ request' = [text |-> request.text, context |-> request.context,
                           classifier |-> outcome, sentiment |-> compound]
            /\ toxicity_analysis' = tox
            /\ sentiment_analysis' = sent
            /\ pattern_analysis' = pat
            /\ response' = BuildResponse(request.text,
                                         request.user_preferences, tox, sent,
                                         pat, now, now - start_time)
            /\ UNCHANGED <<analyzer, now, earlier, start_time, cleaned_text,
                           database>>

NextBlocking ==
    Initialize \/ AnalyzeText \/ EnterClassifier \/ LeaveClassifier \/ Tick

SpecBlocking == Init /\ [][NextBlocking]_vars

(***************************************************************************)
(* database.py: one Database called by several asyncio tasks.  A task runs *)
(* without interruption from one await that suspends to the next; the only *)
(* such await is asyncio.sleep in connect (line 73), reached directly or   *)
(* through store_analysis (line 109).  tasks[t].pc tells where task t is   *)
(* suspended: "connect" inside a direct connect() call, "store" inside the *)
(* connect() that store_analysis awaits, "idle" outside any call.          *)
(***************************************************************************)
\* the calls of store_analysis a run makes
MaxStored == 3

\* (original_text, analysis_result) as analyze_content hands them over;
\* of the result only its category is kept
StoreArguments ==
    {<<Text_Wonderful, [category |-> SAFE]>>,
     <<Text_Threat, [category |-> THREAT]>>}

Suspended(position) == {t \in DbTasks : tasks[t].pc = position}

\* Variant: the id is built from the timestamp alone.
analysis_id_by_time(history, timestamp) == <<"analysis", timestamp>>

\* line 112: f"analysis_{len(self.analysis_history) + 1}_{int(timestamp)}"
analysis_id(history, timestamp) == <<"analysis", Len(history) + 1, timestamp>>

\* lines 115-124
InMemoryRecord(id, original_text, analysis_result, timestamp) ==
    [id |-> id,
     data |-> [original_text |-> original_text,
               analysis_result |-> analysis_result,
               user_id |-> "None"],
     created_at |-> timestamp,
     updated_at |-> timestamp]

\* Database.connect up to its await: lines 61-73
Connect(t) ==
    /\ tasks[t] = Idle
    /\ IF connected
       THEN UNCHANGED tasks
       ELSE tasks' = [tasks EXCEPT ![t] = [pc |-> "connect"]]
    /\ UNCHANGED <<analyzer, now, request, locals, response, earlier,
                   progress, connected, analysis_history, returned>>

\* Database.connect after its await: lines 75-76
ConnectResume(t) ==
    /\ tasks[t].pc = "connect"
    /\ connected' = TRUE
    /\ tasks' = [tasks EXCEPT ![t] = Idle]
    /\ UNCHANGED <<analyzer, now, request, locals, response, earlier,
                   progress, analysis_history, returned>>

\* Database.disconnect: lines 83-92
Disconnect(t) ==
    /\ tasks[t] = Idle
    /\ connected' = IF connected THEN FALSE ELSE connected
    /\ UNCHANGED <<analyzer, now, request, locals, response, earlier,
                   progress, analysis_history, tasks, returned>>

\* Database.store_analysis from line 111 to its return
StoreRecord(t, original_text, analysis_result) ==
    LET id == analysis_id(analysis_history, now)
        record == InMemoryRecord(id, original_text, analysis_result, now)
    IN  /\ analysis_history' = Append(analysis_history, record)
        /\ returned' = Append(returned, id)
        /\ tasks' = [tasks EXCEPT ![t] = Idle]

\* Database.store_analysis up to its return or, when the database is not
\* connected, up to the await inside connect: lines 108-109, 61-73
StoreAnalysis(t) ==
    \E arguments \in StoreArguments :
        /\ tasks[t] = Idle
        /\ Len(analysis_history) + Cardinality(Suspended("store")) < MaxStored
        /\ IF connected
           THEN /\ StoreRecord(t, arguments[1], arguments[2])
                /\ UNCHANGED connected
           ELSE /\ tasks' = [tasks EXCEPT ![t] =
                                [pc |-> "store",
                                 original_text |-> arguments[1],
                                 analysis_result |-> arguments[2]]]
                /\ UNCHANGED <<connected, analysis_history, returned>>
        /\ UNCHANGED <<analyzer, now, request, locals, response, earlier,
                       progress>>

\* Database.store_analysis after the await inside connect: lines 75-76, then
\* 111-130
StoreAnalysisResume(t) ==
    /\ tasks[t].pc = "store"
    /\ connected' = TRUE
    /\ StoreRecord(t, tasks[t].original_text, tasks[t].analysis_result)
    /\ UNCHANGED <<analyzer, now, request, locals, response, earlier,
                   progress>>

NextDatabase ==
    \/ \E t \in DbTasks :
          \/ Connect(t)
          \/ ConnectResume(t)
          \/ Disconnect(t)
          \/ StoreAnalysis(t)
          \/ StoreAnalysisResume(t)
    \/ Tick

SpecDatabase == Init /\ [][NextDatabase]_vars


(***************************************************************************)
(* Properties of fusion and classification (under SpecFusion).             *)
(***************************************************************************)
Fused == response # NoResponse

Answered == response.status = "ok"

\* the documented domains: every signal present is in [0,1], compound in [-1,1]
ValidLocals ==
    /\ \A k \in DOMAIN toxicity_analysis :
          toxicity_analysis[k] >= 0 /\ toxicity_analysis[k] <= 100
    /\ "compound" \in DOMAIN sentiment_analysis
    /\ sentiment_analysis["compound"] >= -100
    /\ sentiment_analysis["compound"] <= 100

CombinedScore ==
    _combine_analysis_scores(toxicity_analysis, sentiment_analysis,
                             pattern_analysis)

FlagCount == Cardinality({k \in PatternFlags : pattern_analysis[k]})

\* C1: for valid signals, sentiment and any flags the combined score of
\* _combine_analysis_scores lies in [0,1], the analysis is answered, and the
\* toxicity_score of the response is that score.
C1_ScoreInUnitInterval ==
    ValidLocals =>
        /\ CombinedScore >= 0 /\ CombinedScore <= 100
        /\ Fused => /\ Answered
                    /\ response.toxicity_score = CombinedScore

\* a valid input that takes the additive boost on top of a raised score
C1_Witness ==
    /\ Fused /\ Answered /\ ValidLocals
    /\ pattern_analysis["excessive_caps"] /\ pattern_analysis["has_profanity"]
    /\ Get(toxicity_analysis, "threat", 0) > 30
    /\ response.toxicity_score = 100

\* C2: confidence = min(0.95, 0.5 + (0.3 if toxicity > 0.1) + min(0.1 n, 0.2))
\* with n the number of true pattern flags; so it is in [0.5, 0.95], never 1.0.
C2_ConfidenceFormula ==
    LET bonus == IF Get(toxicity_analysis, "toxicity", 0) > 10 THEN 30 ELSE 0
        expected == Min(95, 50 + bonus + Min(10 * FlagCount, 20))
        got == _calculate_confidence(toxicity_analysis, pattern_analysis)
    IN  /\ got = expected
        /\ got >= 50 /\ got <= 95
        /\ (Fused /\ Answered) => response.confidence = got

\* toxicity above 0.1 with three flags set: 0.5 + 0.3 + 0.2 is cut to 0.95
C2_Witness ==
    /\ Fused /\ Answered
    /\ Get(toxicity_analysis, "toxicity", 0) > 10
    /\ FlagCount >= 3
    /\ response.confidence = 95

GridOf(k) ==
    CASE k = "toxicity" -> ToxicityGrid
      [] k = "severe_toxicity" -> SevereGrid
      [] k = "obscene" -> ObsceneGrid
      [] k = "threat" -> ThreatGrid
      [] k = "insult" -> InsultGrid

\* C3: with sentiment and flags unchanged, making one RawSignal larger (one
\* that is missing counts as 0.0) never lowers the combined score.
C3_FusionMonotone ==
    Fused =>
        \A k \in Signals : \A v \in GridOf(k) \cup {100} :
            v > Get(toxicity_analysis, k, 0) =>
                _combine_analysis_scores(Put(toxicity_analysis, k, v),
                                         sentiment_analysis, pattern_analysis)
                    >= CombinedScore

\* an analysis whose score strictly grows when severe_toxicity is raised
C3_Witness ==
    /\ Fused /\ Answered
    /\ "severe_toxicity" \in DOMAIN toxicity_analysis
    /\ toxicity_analysis["severe_toxicity"] = 50
    /\ response.toxicity_score = 60
    /\ _combine_analysis_scores(Put(toxicity_analysis, "severe_toxicity", 55),
                                sentiment_analysis, pattern_analysis) = 80

ThreatCondition ==
    pattern_analysis["has_threats"] \/ Get(toxicity_analysis, "threat", 0) > 40

HateCondition(score) == pattern_analysis["has_hate_speech"] \/ score > 70

CyberCondition(score) ==
    Get(toxicity_analysis, "insult", 0) > 50 /\ score > 60

\* C5: the category is decided by the first matching rule of: score < 0.3 SAFE;
\* has_threats or threat > 0.4 THREAT; has_hate_speech or score > 0.7
\* HATE_SPEECH; insult > 0.5 and score > 0.6 CYBERBULLYING; score > 0.5
\* HARASSMENT; else INAPPROPRIATE.  SPAM and MISINFORMATION are never produced.
C5_CategoryFirstMatch ==
    (Fused /\ Answered) =>
        LET score == response.toxicity_score
            cat == response.category
        IN  /\ score < 30 => cat = SAFE
            /\ (score >= 30 /\ ThreatCondition) => cat = THREAT
            /\ (score >= 30 /\ ~ThreatCondition /\ HateCondition(score))
                  => cat = HATE_SPEECH
            /\ (score >= 30 /\ ~ThreatCondition /\ ~HateCondition(score)
                  /\ CyberCondition(score)) => cat = CYBERBULLYING
            /\ (score >= 30 /\ ~ThreatCondition /\ ~HateCondition(score)
                  /\ ~CyberCondition(score) /\ score > 50) => cat = HARASSMENT
            /\ (score >= 30 /\ ~ThreatCondition /\ ~HateCondition(score)
                  /\ ~CyberCondition(score) /\ score <= 50)
                  => cat = INAPPROPRIATE
            /\ cat \notin {SPAM, MISINFORMATION}

\* both the THREAT and the HATE_SPEECH conditions hold: THREAT wins
C5_Witness ==
    /\ Fused /\ Answered
    /\ pattern_analysis["has_threats"]
    /\ pattern_analysis["has_hate_speech"]
    /\ response.toxicity_score > 70
    /\ response.category = THREAT

\* C6: severity is CRITICAL for category THREAT whatever the score; for any
\* other category HIGH if score >= 0.8, MEDIUM if 0.6 <= score < 0.8, else LOW.
C6_Severity ==
    (Fused /\ Answered) =>
        LET score == response.toxicity_score
            sev == response.severity
        IN  /\ response.category = THREAT => sev = CRITICAL
            /\ (response.category # THREAT /\ score >= 80) => sev = HIGH
            /\ (response.category # THREAT /\ score >= 60 /\ score < 80)
                  => sev = MEDIUM
            /\ (response.category # THREAT /\ score < 60) => sev = LOW

\* a THREAT whose score alone would give HIGH
C6_Witness ==
    /\ Fused /\ Answered
    /\ response.category = THREAT
    /\ response.toxicity_score >= 80
    /\ response.severity = CRITICAL

\* C7: the category is SAFE exactly when the combined score is below 0.3.
C7_SafeIffBelowThreshold ==
    (Fused /\ Answered) =>
        (response.category = SAFE <=> response.toxicity_score < 30)

\* a score of exactly 0.3 is not SAFE
C7_Witness ==
    /\ Fused /\ Answered
    /\ response.toxicity_score = 30
    /\ response.category = INAPPROPRIATE

\* C8: the suggestions of every response number at most 3, for every category
\* and whatever user_preferences the caller gave.
C8_SuggestionsAtMostThree ==
    (Fused /\ Answered) => Len(response.suggestions) <= 3

\* a non-SAFE response to a caller who gave preferences: the list is full
C8_Witness ==
    /\ Fused /\ Answered
    /\ request.user_preferences # <<>>
    /\ response.category = HARASSMENT
    /\ Len(response.suggestions) = 3

\* C10: is_toxic is true exactly when the combined score is above 0.5, and a
\* score of exactly 0.5 is not toxic, whatever toxicity_threshold was given.
C10_ToxicIffAboveHalf ==
    (Fused /\ Answered) =>
        (response.is_toxic <=> response.toxicity_score > 50)

\* a caller threshold of 0.3 and a score of exactly 0.5: not toxic
C10_Witness ==
    /\ Fused /\ Answered
    /\ request.user_preferences # <<>>
    /\ request.user_preferences[1].toxicity_threshold < 50
    /\ response.toxicity_score = 50
    /\ ~response.is_toxic

\* C11: the response carries the fixed list of support resources exactly when
\* the combined score is above 0.7 or the category is THREAT, CYBERBULLYING or
\* HATE_SPEECH; in every other case support_resources is None.
C11_SupportResourcesGate ==
    (Fused /\ Answered) =>
        IF \/ response.toxicity_score > 70
           \/ response.category \in {THREAT, CYBERBULLYING, HATE_SPEECH}
        THEN response.support_resources = _load_support_resources
        ELSE response.support_resources = <<>>

\* CYBERBULLYING at a score of 0.7, which is not above 0.7: the list is there
C11_Witness ==
    /\ Fused /\ Answered
    /\ response.category = CYBERBULLYING
    /\ response.toxicity_score <= 70
    /\ response.support_resources = _load_support_resources
    /\ Len(response.support_resources) = 3

(***************************************************************************)
(* Properties of the analyzer in service (under Spec and SpecPair).        *)
(***************************************************************************)
Called == request # NoCall

Kept == earlier # NoCall

\* the two calls were given the same text, classifier outcome and sentiment
SameInputs ==
    /\ earlier.request.text = request.text
    /\ earlier.request.classifier = request.classifier
    /\ earlier.request.sentiment = request.sentiment

\* a response without the two fields that record when and how long
Verdict(r) ==
    [f \in DOMAIN r \ {"analysis_timestamp", "processing_time_ms"} |-> r[f]]

\* C4 as stated: two analyze_text calls given the same text, classifier
\* signals and sentiment return an identical result.
C4_IdenticalResult ==
    (Kept /\ SameInputs) => earlier.response = response

\* C4: two analyze_text calls given the same text, classifier signals and
\* sentiment return results that agree in every field other than
\* analysis_timestamp and processing_time_ms, whatever ran before or between.
C4_IdenticalVerdict ==
    (Kept /\ SameInputs) => Verdict(earlier.response) = Verdict(response)

\* the same inputs analysed twice, at different times
C4_Witness ==
    /\ Kept /\ SameInputs
    /\ response.status = "ok"
    /\ earlier.response.analysis_timestamp # response.analysis_timestamp
    /\ Verdict(earlier.response) = Verdict(response)

\* C9: when no classifier was loaded, or the classifier raises in the call,
\* _analyze_toxicity returns the rule-based scores of the cleaned text and
\* analyze_text returns a response: the failure does not reach the caller.
C9_ClassifierFailureFallsBack ==
    (Called /\ (toxicity_classifier = "None"
                \/ request.classifier.kind = "raise")) =>
        /\ toxicity_analysis =
              _rule_based_toxicity_analysis(_preprocess_text(request.text))
        /\ response.status = "ok"

\* a loaded classifier raised on a threatening text: the rule-based threat
\* score is used
C9_Witness ==
    /\ Called
    /\ toxicity_classifier = "pipeline"
    /\ request.classifier.kind = "raise"
    /\ request.text = Text_Threat
    /\ toxicity_analysis["threat"] > 0
    /\ response.status = "ok"
    /\ response.category = THREAT

\* the scenario of C12: "I will kill you or else" analysed with no classifier
\* loaded and a sentiment that is not below -0.5
ThreatScenario ==
    /\ Called
    /\ request.text = Text_Threat
    /\ toxicity_classifier = "None"
    /\ request.sentiment >= -50

\* C12 as stated: in the scenario has_threats is true, the fallback scores
\* are threat = 0.7 and severe_toxicity = 0.7, the combined score is 0.9, the
\* category THREAT and the severity CRITICAL.
C12_ThreatScenarioAsStated ==
    ThreatScenario =>
        /\ pattern_analysis["has_threats"]
        /\ toxicity_analysis["threat"] = 70
        /\ toxicity_analysis["severe_toxicity"] = 70
        /\ response.toxicity_score = 90
        /\ response.category = THREAT
        /\ response.severity = CRITICAL

\* C12: in the scenario has_threats is true, the fallback scores are
\* threat = 1.0 (two threat patterns match: "will kill" and "or else", so
\* min(0.4 + 0.3 * 2, 1.0)) and severe_toxicity = 0.7, the combined score is
\* 0.9, the category THREAT and the severity CRITICAL.
C12_ThreatScenario ==
    ThreatScenario =>
        /\ pattern_analysis["has_threats"]
        /\ toxicity_analysis["threat"] = 100
        /\ toxicity_analysis["severe_toxicity"] = 70
        /\ response.status = "ok"
        /\ response.toxicity_score = 90
        /\ response.category = THREAT
        /\ response.severity = CRITICAL

\* the scenario has run: the text matches two of the three threat patterns
C12_Witness ==
    /\ ThreatScenario
    /\ CountPhraseMatches(threat_patterns, Lower(_preprocess_text(request.text))) = 2
    /\ response.status = "ok"
    /\ response.toxicity_score = 90

(***************************************************************************)
(* More properties of fusion and classification (under SpecFusion).        *)
(***************************************************************************)
\* C13: when has_hate_speech is true, has_threats is false and threat is at
\* most 0.4 (a missing threat counts as 0.0), the combined score is at least
\* 0.75 and the category is HATE_SPEECH, however low toxicity is.
C13_HateSpeechFloor ==
    (/\ Fused
     /\ pattern_analysis["has_hate_speech"]
     /\ ~pattern_analysis["has_threats"]
     /\ Get(toxicity_analysis, "threat", 0) <= 40) =>
        /\ CombinedScore >= 75
        /\ Answered => /\ response.toxicity_score >= 75
                       /\ response.category = HATE_SPEECH

\* a hate-speech flag alone, with no toxicity reported at all: exactly 0.75
C13_Witness ==
    /\ Fused /\ Answered
    /\ pattern_analysis["has_hate_speech"]
    /\ ~pattern_analysis["has_threats"]
    /\ Get(toxicity_analysis, "toxicity", 0) = 0
    /\ Get(toxicity_analysis, "threat", 0) <= 30
    /\ response.toxicity_score = 75
    /\ response.category = HATE_SPEECH

\* v brought into [lo, hi]
Clamp(v, lo, hi) == Max(lo, Min(v, hi))

\* the signals and the sentiment of the analysis, each clamped to its domain
ClampedSignals ==
    [k \in DOMAIN toxicity_analysis |-> Clamp(toxicity_analysis[k], 0, 100)]

ClampedSentiment ==
    [k \in DOMAIN sentiment_analysis |->
        Clamp(sentiment_analysis[k], -100, 100)]

\* C14: a signal below 0 or above 1 and a compound outside [-1,1] are clamped
\* to their domain before use: the analysis is answered, its result is the one
\* obtained from the clamped values and its score is in [0,1].
C14_OutOfRangeClamped ==
    (Fused /\ "compound" \in DOMAIN sentiment_analysis) =>
        /\ Answered
        /\ response = BuildResponse(request.text, request.user_preferences,
                                    ClampedSignals, ClampedSentiment,
                                    pattern_analysis, now, 0)
        /\ response.toxicity_score >= 0
        /\ response.toxicity_score <= 100

\* C15: when the sentiment answer has no compound, analyze_text proceeds with
\* compound = 0.0 and returns a result (for signals in their domain).
C15_SentimentDefaultsToZero ==
    (/\ Fused
     /\ "compound" \notin DOMAIN sentiment_analysis
     /\ \A k \in DOMAIN toxicity_analysis :
           toxicity_analysis[k] >= 0 /\ toxicity_analysis[k] <= 100) =>
        /\ Answered
        /\ response.sentiment_score = 0
        /\ response = BuildResponse(request.text, request.user_preferences,
                                    toxicity_analysis, "compound" :> 0,
                                    pattern_analysis, now, 0)

\* C16: for every category other than SAFE the suggestions of the response
\* contain the closing remark beside the suggestions of the category, and
\* number at most 3.
C16_ClosingRemarkKept ==
    (Fused /\ Answered /\ response.category # SAFE) =>
        /\ \E i \in 1..Len(response.suggestions) :
              response.suggestions[i] = ClosingRemark
        /\ response.suggestions[1] =
              Get(base_suggestions, response.category, default_suggestions)[1]
        /\ Len(response.suggestions) <= SuggestionsCap

\* the largest element of a non-empty set of numbers
SetMax(S) == CHOOSE m \in S : \A x \in S : x <= m

\* the values the fusion raises the score to: toxicity itself and the floor
\* of every signal that is strictly past its threshold
Floors ==
    {Get(toxicity_analysis, "toxicity", 0)}
        \cup (IF Get(toxicity_analysis, "severe_toxicity", 0) > 50
               THEN {80} ELSE {})
        \cup (IF Get(toxicity_analysis, "threat", 0) > 30 THEN {90} ELSE {})
        \cup (IF sentiment_analysis["compound"] < -50
               THEN {(-sentiment_analysis["compound"] * 6) \div 10} ELSE {})
        \cup (IF pattern_analysis["has_threats"] THEN {85} ELSE {})
        \cup (IF pattern_analysis["has_hate_speech"] THEN {75} ELSE {})

\* C19: for signals and a compound in their domains the combined score is the
\* outcome of the eight steps in order: toxicity, raised to 0.8 if
\* severe_toxicity > 0.5, to 0.9 if threat > 0.3, to |compound| * 0.6 if
\* compound < -0.5, to 0.85 if has_threats, to 0.75 if has_hate_speech; then
\* 0.2 is added if excessive_caps and has_profanity; then the clamp.  The
\* comparisons are strict: 0.5, 0.3 and -0.5 trigger nothing.
C19_FusionSteps ==
    (Fused /\ ValidLocals) =>
        LET raised == SetMax(Floors)
            boosted == IF /\ pattern_analysis["excessive_caps"]
                          /\ pattern_analysis["has_profanity"]
                       THEN raised + 20 ELSE raised
        IN  /\ Answered
            /\ response.toxicity_score = Clamp(boosted, 0, 100)

\* severe_toxicity 0.5, threat 0.3 and compound -0.5 trigger nothing, the
\* hate-speech flag raises a toxicity of 0.1 to 0.75 and the boost comes on
\* top of it
C19_Witness ==
    /\ Fused /\ Answered /\ ValidLocals
    /\ Get(toxicity_analysis, "toxicity", 0) = 10
    /\ Get(toxicity_analysis, "severe_toxicity", 0) = 50
    /\ Get(toxicity_analysis, "threat", 0) = 30
    /\ sentiment_analysis["compound"] = -50
    /\ pattern_analysis["has_hate_speech"]
    /\ ~pattern_analysis["has_threats"]
    /\ pattern_analysis["excessive_caps"] /\ pattern_analysis["has_profanity"]
    /\ response.toxicity_score = 95

\* C23: the explanation depends on the category and the score band only: for
\* SAFE it is the fixed positive message with no suffix, and the suggestions
\* are the one fixed positive sentence; for any other category it is the base
\* sentence of the category followed by the borderline suffix if score < 0.5,
\* the moderate suffix if 0.5 <= score < 0.7, the strong suffix if
\* score >= 0.7.
C23_ExplanationByBand ==
    (Fused /\ Answered) =>
        LET score == response.toxicity_score
            cat == response.category
        IN  /\ cat = SAFE =>
                  /\ response.explanation = SafeExplanation
                  /\ response.suggestions = <<SafeSuggestion>>
            /\ (cat # SAFE /\ score < 50) =>
                  response.explanation = explanations[cat] \o BorderlineSuffix
            /\ (cat # SAFE /\ score >= 50 /\ score < 70) =>
                  response.explanation = explanations[cat] \o ModerateSuffix
            /\ (cat # SAFE /\ score >= 70) =>
                  response.explanation = explanations[cat] \o StrongSuffix

\* a score of exactly 0.5: INAPPROPRIATE with the moderate suffix
C23_Witness ==
    /\ Fused /\ Answered
    /\ response.toxicity_score = 50
    /\ response.category = INAPPROPRIATE
    /\ response.explanation = explanations[INAPPROPRIATE] \o ModerateSuffix

\* C25: whenever has_threats is true or the threat signal is above 0.4, the
\* combined score is at least 0.85, and the result is never SAFE: its
\* category is THREAT and its severity CRITICAL, whatever the other signals
\* and flags are.
C25_ThreatAlwaysCritical ==
    (Fused /\ ThreatCondition) =>
        /\ CombinedScore >= 85
        /\ Answered => /\ response.toxicity_score >= 85
                       /\ response.category = THREAT
                       /\ response.severity = CRITICAL

\* a threat flag alone, with a toxicity of 0.1 and no threat signal
C25_Witness ==
    /\ Fused /\ Answered
    /\ pattern_analysis["has_threats"]
    /\ Get(toxicity_analysis, "threat", 0) = 0
    /\ Get(toxicity_analysis, "toxicity", 0) = 10
    /\ response.toxicity_score = 85
    /\ response.category = THREAT
    /\ response.severity = CRITICAL

\* C26: in every result is_toxic is true exactly when the category is THREAT,
\* HATE_SPEECH, CYBERBULLYING or HARASSMENT; SAFE and INAPPROPRIATE results
\* have is_toxic false, and INAPPROPRIATE means 0.3 <= score <= 0.5.
C26_ToxicIffHarmfulCategory ==
    (Fused /\ Answered) =>
        /\ response.is_toxic <=>
              response.category \in
                  {THREAT, HATE_SPEECH, CYBERBULLYING, HARASSMENT}
        /\ response.category \in {SAFE, INAPPROPRIATE} => ~response.is_toxic
        /\ response.category = INAPPROPRIATE =>
              /\ response.toxicity_score >= 30
              /\ response.toxicity_score <= 50

\* HARASSMENT just above 0.5 is toxic
C26_Witness ==
    /\ Fused /\ Answered
    /\ response.category = HARASSMENT
    /\ response.toxicity_score = 60
    /\ response.is_toxic

\* C27: in every result the support resources are attached exactly when the
\* category is THREAT, HATE_SPEECH or CYBERBULLYING: a score above 0.7 always
\* comes with the category THREAT or HATE_SPEECH.
C27_SupportIffCategory ==
    (Fused /\ Answered) =>
        /\ response.support_resources # <<>> <=>
              response.category \in {THREAT, HATE_SPEECH, CYBERBULLYING}
        /\ response.toxicity_score > 70 =>
              response.category \in {THREAT, HATE_SPEECH}

\* a score above 0.7 reached by severe_toxicity alone, with no flag set:
\* HATE_SPEECH by its score, with the resources
C27_Witness ==
    /\ Fused /\ Answered
    /\ FlagCount = 0
    /\ response.toxicity_score = 80
    /\ response.category = HATE_SPEECH
    /\ response.support_resources # <<>>

(***************************************************************************)
(* More properties of the analyzer in service (under Spec).                *)
(***************************************************************************)
\* the latest call went through the external classifier, which returned
OnClassifierPath ==
    /\ Called
    /\ toxicity_classifier = "pipeline"
    /\ request.classifier.kind = "results"

\* the substrings looked for in a label and the signal each stands for
LabelKeywords ==
    {<<<<"t", "o", "x", "i", "c">>, "toxicity">>,
     <<<<"h", "a", "t", "e">>, "toxicity">>,
     <<<<"s", "e", "v", "e", "r", "e">>, "severe_toxicity">>,
     <<<<"o", "b", "s", "c", "e", "n", "e">>, "obscene">>,
     <<<<"t", "h", "r", "e", "a", "t">>, "threat">>,
     <<<<"i", "n", "s", "u", "l", "t">>, "insult">>}

\* the scores the classifier reported under labels that stand for signal
ReportedFor(signal) ==
    LET results == request.classifier.results
    IN  {results[i].score : i \in
            {j \in 1..Len(results) :
                \E kw \in LabelKeywords :
                    kw[2] = signal /\ Contains(kw[1], Lower(results[j].label))}}

\* C17: on the classifier path every label is mapped, ignoring case, by
\* substring to its signal, so each signal some label stands for is set to a
\* score reported for it: a 'severe...' label with score s gives
\* severe_toxicity = s.
C17_EveryLabelMapped ==
    OnClassifierPath =>
        \A signal \in Signals :
            ReportedFor(signal) # {} =>
                /\ signal \in DOMAIN toxicity_analysis
                /\ toxicity_analysis[signal] \in ReportedFor(signal)

(***************************************************************************)
(* Properties of a call that waits for the classifier (under SpecBlocking).*)
(* One step of the clock stands for a stretch of time longer than          *)
(* settings.analysis_timeout_seconds.                                      *)
(***************************************************************************)
\* C18: a classifier call that does not return in time is given up and the
\* analysis goes on with the rule-based scores: no call is still inside the
\* classifier once more than the timeout has passed since its start.
C18_ClassifierTimeoutFallsBack ==
    pc = "classifier" => now - start_time < 1

(***************************************************************************)
(* Properties of the rule-based analysis (under SpecRules).                *)
(***************************************************************************)
Scored == toxicity_analysis # <<>>

\* the text the patterns are searched in
SearchedText == Lower(_preprocess_text(request.text))

\* h, t, p: how many hate, threat and profanity patterns match the text
HateCount == CountPhraseMatches(_compile_hate_speech_patterns, SearchedText)

ThreatCount == CountPhraseMatches(_compile_threat_patterns, SearchedText)

ProfanityCount == CountStemMatches(_compile_profanity_patterns, SearchedText)

\* C20: on the fallback path, with h, t, p the number of hate, threat and
\* profanity patterns (0..3 each) that match the text: toxicity is
\* min(0.3 + 0.2h, 1) if h > 0 else 0, threat min(0.4 + 0.3t, 1) if t > 0 else
\* 0, severe_toxicity 0.7 if t > 0 else 0, obscene min(0.2 + 0.2p, 1) if p > 0
\* else 0, insult min(0.3 + 0.1p, 1) if p > 0 else 0; and has_hate_speech,
\* has_threats, has_profanity are true exactly when h, t, p are above 0.
C20_FallbackScores ==
    Scored =>
        LET h == HateCount
            t == ThreatCount
            p == ProfanityCount
        IN  /\ h \in 0..3 /\ t \in 0..3 /\ p \in 0..3
            /\ DOMAIN toxicity_analysis = Signals
            /\ toxicity_analysis["toxicity"] =
                  (IF h > 0 THEN Min(30 + 20 * h, 100) ELSE 0)
            /\ toxicity_analysis["threat"] =
                  (IF t > 0 THEN Min(40 + 30 * t, 100) ELSE 0)
            /\ toxicity_analysis["severe_toxicity"] = (IF t > 0 THEN 70 ELSE 0)
            /\ toxicity_analysis["obscene"] =
                  (IF p > 0 THEN Min(20 + 20 * p, 100) ELSE 0)
            /\ toxicity_analysis["insult"] =
                  (IF p > 0 THEN Min(30 + 10 * p, 100) ELSE 0)
            /\ pattern_analysis["has_hate_speech"] <=> h > 0
            /\ pattern_analysis["has_threats"] <=> t > 0
            /\ pattern_analysis["has_profanity"] <=> p > 0

\* all three threat patterns match: 0.4 + 0.9 is cut to 1.0
C20_Witness ==
    /\ Scored
    /\ request.text = Joined(<<Fragment_Hurt, Fragment_WatchOut>>)
    /\ ThreatCount = 3
    /\ HateCount = 0
    /\ toxicity_analysis["threat"] = 100
    /\ toxicity_analysis["severe_toxicity"] = 70
    /\ pattern_analysis["has_threats"]
    /\ ~pattern_analysis["has_hate_speech"]

(***************************************************************************)
(* More properties of the classifier path (under Spec).                    *)
(***************************************************************************)
\* the keywords in the order the conditions are written
KeywordOrder ==
    << <<<<"t", "o", "x", "i", "c">>, "toxicity">>,
       <<<<"h", "a", "t", "e">>, "toxicity">>,
       <<<<"s", "e", "v", "e", "r", "e">>, "severe_toxicity">>,
       <<<<"o", "b", "s", "c", "e", "n", "e">>, "obscene">>,
       <<<<"t", "h", "r", "e", "a", "t">>, "threat">>,
       <<<<"i", "n", "s", "u", "l", "t">>, "insult">> >>

\* the places of KeywordOrder whose keyword the label contains
MatchingKeywords(label) ==
    {n \in 1..Len(KeywordOrder) : Contains(KeywordOrder[n][1], Lower(label))}

\* the one signal a label is assigned to; "ignored" when no keyword matches
SignalOf(label) ==
    IF MatchingKeywords(label) = {} THEN "ignored"
    ELSE KeywordOrder[CHOOSE n \in MatchingKeywords(label) :
                          \A m \in MatchingKeywords(label) : n <= m][2]

\* the results of the latest call that are assigned to signal, by position
AssignedTo(signal) ==
    {i \in 1..Len(request.classifier.results) :
        SignalOf(request.classifier.results[i].label) = signal}

\* the signals of the analysis with every missing one written out as 0.0
WithZeros == [k \in Signals |-> Get(toxicity_analysis, k, 0)]

\* C21: on the classifier path a label goes to exactly one signal, that of
\* the first keyword it contains in the order toxic/hate, severe, obscene,
\* threat, insult; a label with no keyword is ignored; the signals are those
\* some label was assigned to, each with the score of the last such label;
\* and a signal no label arrived for is read as 0.0: the verdict is the one
\* of the same signals with the missing ones set to 0.0.
C21_FirstKeywordWins ==
    OnClassifierPath =>
        /\ DOMAIN toxicity_analysis = {k \in Signals : AssignedTo(k) # {}}
        /\ \A k \in DOMAIN toxicity_analysis :
              LET last == CHOOSE i \in AssignedTo(k) :
                              \A j \in AssignedTo(k) : j <= i
              IN  toxicity_analysis[k] = request.classifier.results[last].score
        /\ response.status = "ok"
        /\ Verdict(response) =
              Verdict(BuildResponse(request.text, <<>>, WithZeros,
                                    sentiment_analysis, pattern_analysis,
                                    0, 0))

\* the labels of toxic-bert: 'severe_toxic' holds both 'severe' and 'toxic'
\* and goes to toxicity, no label is left for severe_toxicity
C21_Witness ==
    /\ OnClassifierPath
    /\ request.classifier = BertResults
    /\ SignalOf(<<"s", "e", "v", "e", "r", "e", "_", "t", "o", "x", "i", "c">>) = "toxicity"
    /\ "severe_toxicity" \notin DOMAIN toxicity_analysis
    /\ toxicity_analysis["toxicity"] = 50
    /\ response.status = "ok"

(***************************************************************************)
(* C22.  Preprocessing, run by run.  The input splits into maximal runs:   *)
(* a whitespace run (any mix of whitespace characters) or a run of one     *)
(* other character.  Normalized(text) is what the claim says of each run:  *)
(* a whitespace run at either end is dropped, a whitespace run inside      *)
(* becomes one space, a run of 4 or more of one other character becomes 2  *)
(* of it, a run of 1 to 3 stays as it is.                                  *)
(***************************************************************************)
Cleaned == cleaned_text # NotCleaned

Copies(c, n) == [i \in 1..n |-> c]

RECURSIVE NormalizedRuns(_, _)
NormalizedRuns(s, at_start) ==
    IF s = <<>> THEN <<>>
    ELSE IF Head(s) \in Whitespace
         THEN LET n == LeadingIn(s, Whitespace)
              IN  IF at_start \/ n = Len(s)
                  THEN NormalizedRuns(Drop(s, n), at_start)
                  ELSE <<" ">> \o NormalizedRuns(Drop(s, n), FALSE)
         ELSE LET n == LeadingIn(s, {Head(s)})
              IN  Copies(Head(s), IF n >= 4 THEN 2 ELSE n)
                      \o NormalizedRuns(Drop(s, n), FALSE)

Normalized(text) == NormalizedRuns(text, TRUE)

\* C22: the preprocessed text is never longer than the input, neither
\* starts nor ends with whitespace, holds no whitespace but single spaces,
\* is the input with every whitespace run turned into one space and every
\* run of 4 or more identical characters into 2 of them (shorter runs
\* kept), and preprocessing it again changes nothing.
C22_PreprocessNormalizes ==
    Cleaned =>
        /\ Len(cleaned_text) <= Len(request.text)
        /\ cleaned_text # <<>> =>
              /\ Head(cleaned_text) \notin Whitespace
              /\ cleaned_text[Len(cleaned_text)] \notin Whitespace
        /\ \A i \in 1..Len(cleaned_text) :
              cleaned_text[i] \in Whitespace =>
                  /\ cleaned_text[i] = " "
                  /\ i < Len(cleaned_text) => cleaned_text[i + 1] # " "
        /\ \A i \in 1..Len(cleaned_text) :
              LeadingIn(Drop(cleaned_text, i - 1), {cleaned_text[i]}) <= 3
        /\ cleaned_text = Normalized(request.text)
        /\ _preprocess_text(cleaned_text) = cleaned_text

\* a text that starts with whitespace and goes on with a run of five: the
\* whitespace is dropped and the run becomes two
C22_Witness ==
    /\ Cleaned
    /\ request.text = <<" ", "a", "a", "a", "a", "a">>
    /\ cleaned_text = <<"a", "a">>

(***************************************************************************)
(* C29.  Concurrent calls on one Database.                                 *)
(***************************************************************************)
Ids(history) == {history[i].id : i \in 1..Len(history)}

StoreReturns == Len(returned') = Len(returned) + 1

VerdictFields ==
    {"toxicity_score", "is_toxic", "category", "severity", "confidence",
     "explanation", "suggestions", "support_resources"}

DifferentCallers ==
    /\ earlier.request.context # request.context
    /\ earlier.request.user_preferences # request.user_preferences

\* C30: two analyze_text calls given the same text, classifier outcome and
\* sentiment, whatever their context and user_preferences, both return a
\* response, and the two agree on score, is_toxic, category, severity,
\* confidence, explanation, suggestions and support resources.
C30_VerdictIgnoresCaller ==
    (Kept /\ SameInputs) =>
        /\ earlier.response.status = response.status
        /\ response.status = "ok" =>
              \A f \in VerdictFields : earlier.response[f] = response[f]

\* the same threatening text from a caller with no context and no
\* preferences and from one with a context and a toxicity_threshold of 0.3
C30_Witness ==
    /\ Kept /\ SameInputs /\ DifferentCallers
    /\ earlier.request.user_preferences = <<>>
    /\ request.user_preferences = <<[toxicity_threshold |-> 30]>>
    /\ request.context # <<>>
    /\ response.status = "ok"
    /\ response.category = THREAT
    /\ response.suggestions = earlier.response.suggestions

(***************************************************************************)
(* C24.  What a call does to the analyzer (under SpecBlocking).  The three *)
(* compiled rule sets and support_resources are definitions of this        *)
(* module, assigned in __init__ and by no other line, so no step can       *)
(* change them; the other three fields are the variables of analyzer.      *)
(***************************************************************************)
AnalyzeTextStep == AnalyzeText \/ EnterClassifier \/ LeaveClassifier

\* what a call returns, from its own inputs and the classifier installed
ResultFor(classifier, text, outcome, compound) ==
    BuildResponse(text, <<>>,
                  _analyze_toxicity(classifier, outcome, CleanedOf[text]),
                  [compound |-> compound], PatternsOf[CleanedOf[text]], 0, 0)

====
